---- MODULE Spec2Model ----
(***************************************************************************)
(* Model of cupy/linalg/decomposition.py: cholesky(a), its three          *)
(* validators and the triangular mask _tril(x, k).                         *)
(*                                                                         *)
(* One call of cholesky is a straight-line program; pc names the source    *)
(* line about to run.  Device arrays live in `heap` (one slot for the      *)
(* caller's array, one for the working copy), so that aliasing between     *)
(* the input and the working buffer is something the model can express.    *)
(* `trace` records every device-side effect in the order it happens.       *)
(*                                                                         *)
(* Element values: bool arrays hold BOOLEAN, integer arrays hold Int,      *)
(* floating (and complex, imaginary part omitted) arrays hold records      *)
(* [k, v]: k = "fin" with value v, k = "inf" with sign v, or k = "nan".    *)
(* Negative zero is identified with zero (they compare equal).             *)
(***************************************************************************)
EXTENDS Integers, Sequences, FiniteSets, TLC

VARIABLES cusolver_enabled, pc, a, heap, aOrig, ret_dtype, dtype, x, n,
          handle, devInfo, buffersize, workspace, status, err, result,
          xPre, k, trace

vars == <<cusolver_enabled, pc, a, heap, aOrig, ret_dtype, dtype, x, n,
          handle, devInfo, buffersize, workspace, status, err, result,
          xPre, k, trace>>

\* ---------------------------------------------------------------- bounds
MaxN == 2
MaxStatus == 2
MaxBuf == 1
MaxK == 1

\* ------------------------------------------------------- element values
Fin(i) == [k |-> "fin", v |-> i]
PInf == [k |-> "inf", v |-> 1]
NaN == [k |-> "nan", v |-> 0]

IsZero(e) == e.k = "fin" /\ e.v = 0

Sign(i) == IF i < 0 THEN -1 ELSE 1

\* IEEE-754 product of two floating values.
FMul(e, f) ==
    IF e.k = "nan" \/ f.k = "nan" THEN NaN
    ELSE IF e.k = "inf" \/ f.k = "inf"
         THEN IF IsZero(e) \/ IsZero(f) THEN NaN
              ELSE [k |-> "inf", v |-> Sign(e.v) * Sign(f.v)]
         ELSE Fin(e.v * f.v)

\* A boolean operand of a floating multiplication is converted to 1.0 / 0.0.
FromBool(b) == IF b THEN Fin(1) ELSE Fin(0)

\* ---------------------------------------------------------------- dtypes
\* dtype.char of the element types an array can carry.
DtypeChars == {"?", "b", "B", "h", "H", "i", "I", "l", "L",
               "e", "f", "d", "F", "D"}

Kind(c) == CASE c = "?" -> "bool"
             [] c \in {"b", "h", "i", "l"} -> "int"
             [] c \in {"B", "H", "I", "L"} -> "uint"
             [] c \in {"e", "f", "d"} -> "float"
             [] c \in {"F", "D"} -> "complex"

\* Width in bits of one (real) component.
Bits(c) == CASE c = "?" -> 1
             [] c \in {"b", "B"} -> 8
             [] c \in {"h", "H", "e"} -> 16
             [] c \in {"i", "I", "f", "F"} -> 32
             [] c \in {"l", "L", "d", "D"} -> 64

\* Largest integer width a floating type of the given width holds exactly
\* under numpy's safe-casting rule.
IntBitsHeld(fbits) == CASE fbits = 16 -> 8
                        [] fbits = 32 -> 16
                        [] fbits = 64 -> 64

\* numpy.can_cast(from, to), casting='safe'.
CanCast(from, to) ==
    CASE Kind(to) = "bool" -> Kind(from) = "bool"
      [] Kind(to) = "int" ->
            \/ Kind(from) = "bool"
            \/ Kind(from) = "int" /\ Bits(from) <= Bits(to)
            \/ Kind(from) = "uint" /\ Bits(from) < Bits(to)
      [] Kind(to) = "uint" ->
            \/ Kind(from) = "bool"
            \/ Kind(from) = "uint" /\ Bits(from) <= Bits(to)
      [] Kind(to) = "float" ->
            \/ Kind(from) = "bool"
            \/ Kind(from) \in {"int", "uint"} /\ Bits(from) <= IntBitsHeld(Bits(to))
            \/ Kind(from) = "float" /\ Bits(from) <= Bits(to)
      [] Kind(to) = "complex" ->
            \/ Kind(from) = "bool"
            \/ Kind(from) \in {"int", "uint"} /\ Bits(from) <= IntBitsHeld(Bits(to))
            \/ Kind(from) \in {"float", "complex"} /\ Bits(from) <= Bits(to)

\* The order in which numpy.find_common_type tries candidate types.
TestTypes == <<"?", "b", "B", "h", "H", "i", "I", "l", "L",
               "e", "f", "d", "F", "D">>

\* numpy.find_common_type((c, 'f'), ()).char: the first candidate that every
\* listed array type can be cast to.
FindCommonType(c) ==
    LET ok == {i \in DOMAIN TestTypes :
                  CanCast(c, TestTypes[i]) /\ CanCast("f", TestTypes[i])}
        first == CHOOSE i \in ok : \A j \in ok : i <= j
    IN TestTypes[first]

\* Lines 34-39 of cholesky.
ResolveDtypeOf(c) == IF c = "f" \/ c = "d" THEN c ELSE FindCommonType(c)

\* ---------------------------------------------------------------- arrays
Coords(shape) == (0 .. shape[1] - 1) \X (0 .. shape[2] - 1)

\* Values an array of the given element type can hold.
ValuesOf(c) == CASE Kind(c) = "bool" -> {FALSE, TRUE}
                 [] Kind(c) = "int" -> {-1, 0, 2}
                 [] Kind(c) = "uint" -> {0, 2}
                 [] Kind(c) \in {"float", "complex"} -> {Fin(0), Fin(2), PInf, NaN}

\* A matrix holding dg on the diagonal, up above it and lo below it.
Banded(shape, dg, up, lo) ==
    [c \in Coords(shape) |->
        IF c[2] = c[1] THEN dg ELSE IF c[2] > c[1] THEN up ELSE lo]

Shapes == UNION {[1 .. r -> 0 .. MaxN] : r \in 0 .. 3}

\* Element conversion done by ndarray.astype.
CastElem(e, from, to) ==
    CASE Kind(from) = "bool" -> FromBool(e)
      [] Kind(from) \in {"int", "uint"} -> Fin(e)
      [] OTHER -> e

AstypeData(data, from, to) == [c \in DOMAIN data |-> CastElem(data[c], from, to)]

AstypeRefBug(from, to) == IF from = to THEN "a" ELSE "x"

\* a.astype(dtype, copy=True) always allocates a new array.
AstypeRef(from, to) == "x"

\* ------------------------------------------------------------ validators
CusolverMissingBug(enabled) == FALSE

\* Line 26: the capability test on the module-level flag.
CusolverMissing(enabled) == ~enabled

\* _assertCupyArray: the isinstance test.
AssertCupyArrayOk(arr) == arr.is_cupy

\* _assertRank2: len(a.shape) == 2.
AssertRank2Ok(arr) == Len(arr.shape) = 2

Max2(i, j) == IF i >= j THEN i ELSE j
Min2(i, j) == IF i <= j THEN i ELSE j

\* a.shape[-2:] of an array of rank 2 or more.
Last2(shape) == <<shape[Len(shape) - 1], shape[Len(shape)]>>

AssertNdSquarenessBug(arr) == TRUE

\* _assertNdSquareness: max(a.shape[-2:]) == min(a.shape[-2:]).
AssertNdSquarenessOk(arr) ==
    Max2(Last2(arr.shape)[1], Last2(arr.shape)[2])
        = Min2(Last2(arr.shape)[1], Last2(arr.shape)[2])

\* ------------------------------------------------------------------ mask
\* _tril: mask = v - u <= k; x *= mask.
TrilData(data, shape, kk) ==
    [c \in Coords(shape) |-> FMul(data[c], FromBool(c[2] - c[1] <= kk))]

\* ------------------------------------------------------- native routine
\* potrf with the upper fill mode on the column-major view of the buffer:
\* it processes the triangle that is lower-and-diagonal in the row-major
\* view and leaves the rest of the buffer as it was.
PotrfData(data, dg, lo) ==
    [c \in DOMAIN data |->
        IF c[2] = c[1] THEN dg ELSE IF c[2] < c[1] THEN lo ELSE data[c]]

FactorValues == {Fin(1), Fin(2)}

\* ---------------------------------------------------------------- errors
NoErr == [type |-> "none", what |-> "none", order |-> 0]
Err(t, w, o) == [type |-> t, what |-> w, order |-> o]

NoArr == [ref |-> "none", dtype |-> "none", shape |-> <<>>]
NoWs == [allocated |-> FALSE, size |-> 0, dtype |-> "none"]

Ev(op, dt, sz) == [op |-> op, dt |-> dt, size |-> sz]

\* ------------------------------------------------------------------ Init
Init ==
    /\ cusolver_enabled \in BOOLEAN
    /\ pc = "idle"
    /\ a = [is_cupy |-> TRUE, dtype |-> "f", shape |-> <<0, 0>>]
    /\ heap = [a |-> <<>>, x |-> <<>>]
    /\ aOrig = <<>>
    /\ ret_dtype = "none"
    /\ dtype = "none"
    /\ x = NoArr
    /\ n = 0
    /\ handle = FALSE
    /\ devInfo = FALSE
    /\ buffersize = 0
    /\ workspace = NoWs
    /\ status = 0
    /\ err = NoErr
    /\ result = "none"
    /\ xPre = <<>>
    /\ k = 0
    /\ trace = <<>>

\* State of a fresh call: everything local to the previous call is gone.
Fresh ==
    /\ ret_dtype' = "none"
    /\ dtype' = "none"
    /\ n' = 0
    /\ handle' = FALSE
    /\ devInfo' = FALSE
    /\ buffersize' = 0
    /\ workspace' = NoWs
    /\ status' = 0
    /\ err' = NoErr
    /\ result' = "none"
    /\ trace' = <<>>

\* A caller invokes cholesky(a).  The function keeps nothing between calls,
\* so a behaviour is one call from the idle state.
Call ==
    /\ pc = "idle"
    /\ \E cup \in BOOLEAN, c \in DtypeChars, sh \in Shapes :
         \E dg \in ValuesOf(c), up \in ValuesOf(c), lo \in ValuesOf(c) :
            LET data == IF Len(sh) = 2 THEN Banded(sh, dg, up, lo) ELSE <<>>
            IN /\ a' = [is_cupy |-> cup, dtype |-> c, shape |-> sh]
               /\ heap' = [a |-> data, x |-> <<>>]
               /\ aOrig' = data
    /\ pc' = "L26"
    /\ x' = NoArr
    /\ xPre' = <<>>
    /\ k' = 0
    /\ Fresh
    /\ UNCHANGED cusolver_enabled

Raise(e) ==
    /\ pc' = "raised"
    /\ err' = e

\* Lines 26-27.
CheckCusolver ==
    /\ pc = "L26"
    /\ IF CusolverMissing(cusolver_enabled)
       THEN Raise(Err("RuntimeError", "cusolver", 0))
       ELSE pc' = "L30" /\ UNCHANGED err
    /\ UNCHANGED <<cusolver_enabled, a, heap, aOrig, ret_dtype, dtype, x, n,
                   handle, devInfo, buffersize, workspace, status, result,
                   xPre, k, trace>>

\* Line 30.
AssertCupyArray ==
    /\ pc = "L30"
    /\ IF ~AssertCupyArrayOk(a)
       THEN Raise(Err("LinAlgError", "not_cupy", 0))
       ELSE pc' = "L31" /\ UNCHANGED err
    /\ UNCHANGED <<cusolver_enabled, a, heap, aOrig, ret_dtype, dtype, x, n,
                   handle, devInfo, buffersize, workspace, status, result,
                   xPre, k, trace>>

\* Line 31.
AssertRank2 ==
    /\ pc = "L31"
    /\ IF ~AssertRank2Ok(a)
       THEN Raise(Err("LinAlgError", "rank", Len(a.shape)))
       ELSE pc' = "L32" /\ UNCHANGED err
    /\ UNCHANGED <<cusolver_enabled, a, heap, aOrig, ret_dtype, dtype, x, n,
                   handle, devInfo, buffersize, workspace, status, result,
                   xPre, k, trace>>

\* Line 32.
AssertNdSquareness ==
    /\ pc = "L32"
    /\ IF ~AssertNdSquarenessOk(a)
       THEN Raise(Err("LinAlgError", "square", 0))
       ELSE pc' = "L34" /\ UNCHANGED err
    /\ UNCHANGED <<cusolver_enabled, a, heap, aOrig, ret_dtype, dtype, x, n,
                   handle, devInfo, buffersize, workspace, status, result,
                   xPre, k, trace>>

\* Lines 34-39.
ResolveDtype ==
    /\ pc = "L34"
    /\ ret_dtype' = a.dtype
    /\ dtype' = ResolveDtypeOf(a.dtype)
    /\ pc' = "L41"
    /\ UNCHANGED <<cusolver_enabled, a, heap, aOrig, x, n,
                   handle, devInfo, buffersize, workspace, status, err, result,
                   xPre, k, trace>>

\* Lines 41-42.
Astype ==
    /\ pc = "L41"
    /\ LET ref == AstypeRef(a.dtype, dtype)
       IN /\ x' = [ref |-> ref, dtype |-> dtype, shape |-> a.shape]
          /\ heap' = [heap EXCEPT ![ref] = AstypeData(heap.a, a.dtype, dtype)]
    /\ n' = a.shape[1]
    /\ trace' = Append(trace, Ev("astype", dtype, 0))
    /\ pc' = "L43"
    /\ UNCHANGED <<cusolver_enabled, a, aOrig, ret_dtype, dtype,
                   handle, devInfo, buffersize, workspace, status, err, result,
                   xPre, k>>

\* Line 43.
GetHandle ==
    /\ pc = "L43"
    /\ handle' = TRUE
    /\ trace' = Append(trace, Ev("get_cusolver_handle", "none", 0))
    /\ pc' = "L44"
    /\ UNCHANGED <<cusolver_enabled, a, heap, aOrig, ret_dtype, dtype, x, n,
                   devInfo, buffersize, workspace, status, err, result,
                   xPre, k>>

\* Line 44.
AllocDevInfo ==
    /\ pc = "L44"
    /\ devInfo' = TRUE
    /\ trace' = Append(trace, Ev("empty_devInfo", "int32", 1))
    /\ pc' = "L45"
    /\ UNCHANGED <<cusolver_enabled, a, heap, aOrig, ret_dtype, dtype, x, n,
                   handle, buffersize, workspace, status, err, result,
                   xPre, k>>

SingleBranchBug(arr) == arr.dtype \in {"f", "F"}

\* Line 45: the test that selects the single-precision routines.
SingleBranch(arr) == arr.dtype = "f"

\* Lines 46-47 / 53-54: the size query; the event carries the size returned.
BufferSize ==
    /\ pc = "L45"
    /\ \E sz \in 0 .. MaxBuf :
         /\ buffersize' = sz
         /\ trace' = Append(trace,
                Ev(IF SingleBranch(x) THEN "spotrf_bufferSize"
                                      ELSE "dpotrf_bufferSize", x.dtype, sz))
    /\ pc' = "L48"
    /\ UNCHANGED <<cusolver_enabled, a, heap, aOrig, ret_dtype, dtype, x, n,
                   handle, devInfo, workspace, status, err, result,
                   xPre, k>>

WorkspaceSizeBug(sz) == sz + 1

\* Lines 48 / 55: the size the scratch buffer is allocated with.
WorkspaceSize(sz) == sz

\* Lines 48 / 55.
AllocWorkspace ==
    /\ pc = "L48"
    /\ workspace' = [allocated |-> TRUE, size |-> WorkspaceSize(buffersize),
                     dtype |-> IF SingleBranch(x) THEN "f" ELSE "d"]
    /\ trace' = Append(trace,
                   Ev("empty_workspace", IF SingleBranch(x) THEN "f" ELSE "d",
                      WorkspaceSize(buffersize)))
    /\ pc' = "L49"
    /\ UNCHANGED <<cusolver_enabled, a, heap, aOrig, ret_dtype, dtype, x, n,
                   handle, devInfo, buffersize, status, err, result,
                   xPre, k>>

\* Lines 49-51 / 56-58: the native routine writes the factor into the
\* working buffer and the status into devInfo.
Potrf ==
    /\ pc = "L49"
    /\ \E st \in -MaxStatus .. MaxStatus, dg \in FactorValues, lo \in FactorValues :
         /\ heap' = [heap EXCEPT ![x.ref] = PotrfData(heap[x.ref], dg, lo)]
         /\ status' = st
    /\ trace' = Append(trace,
                   Ev(IF SingleBranch(x) THEN "spotrf" ELSE "dpotrf",
                      x.dtype, buffersize))
    /\ pc' = "L59"
    /\ UNCHANGED <<cusolver_enabled, a, aOrig, ret_dtype, dtype, x, n,
                   handle, devInfo, buffersize, workspace, err, result,
                   xPre, k>>

ClassifyBug(st) == IF st > 1 THEN "not_pd" ELSE IF st < 0 THEN "param" ELSE "ok"

\* Lines 60-66: the class of a status value.
ClassifyOf(st) == IF st > 0 THEN "not_pd" ELSE IF st < 0 THEN "param" ELSE "ok"

\* Lines 59-66.
Classify ==
    /\ pc = "L59"
    /\ trace' = Append(trace, Ev("read_status", "int32", 0))
    /\ CASE ClassifyOf(status) = "not_pd" ->
                Raise(Err("LinAlgError", "not_pd", status))
         [] ClassifyOf(status) = "param" ->
                Raise(Err("LinAlgError", "param", 0))
         [] OTHER -> pc' = "L67" /\ UNCHANGED err
    /\ UNCHANGED <<cusolver_enabled, a, heap, aOrig, ret_dtype, dtype, x, n,
                   handle, devInfo, buffersize, workspace, status, result,
                   xPre, k>>

\* Line 67: _tril(x, k=0).
Tril ==
    /\ pc = "L67"
    /\ xPre' = heap[x.ref]
    /\ k' = 0
    /\ heap' = [heap EXCEPT ![x.ref] = TrilData(heap[x.ref], x.shape, 0)]
    /\ trace' = Append(trace, Ev("tril", x.dtype, 0))
    /\ pc' = "L68"
    /\ UNCHANGED <<cusolver_enabled, a, aOrig, ret_dtype, dtype, x, n,
                   handle, devInfo, buffersize, workspace, status, err, result>>

\* Line 68.
Return ==
    /\ pc = "L68"
    /\ result' = x.ref
    /\ pc' = "returned"
    /\ UNCHANGED <<cusolver_enabled, a, heap, aOrig, ret_dtype, dtype, x, n,
                   handle, devInfo, buffersize, workspace, status, err,
                   xPre, k, trace>>

\* _tril(x, k) called on its own with an M x N floating buffer.
TrilCall ==
    /\ pc = "idle"
    /\ \E m \in 0 .. MaxN, nn \in 0 .. MaxN, kk \in -MaxK .. MaxK, c \in {"f", "d"} :
         \E dg \in ValuesOf(c), up \in ValuesOf(c), lo \in ValuesOf(c) :
            LET sh == <<m, nn>>
                data == Banded(sh, dg, up, lo)
            IN /\ x' = [ref |-> "x", dtype |-> c, shape |-> sh]
               /\ xPre' = data
               /\ k' = kk
               /\ heap' = [a |-> <<>>, x |-> TrilData(data, sh, kk)]
    /\ a' = [is_cupy |-> TRUE, dtype |-> "f", shape |-> <<0, 0>>]
    /\ aOrig' = <<>>
    /\ pc' = "tril_returned"
    /\ Fresh
    /\ UNCHANGED cusolver_enabled

Next ==
    \/ Call
    \/ CheckCusolver
    \/ AssertCupyArray
    \/ AssertRank2
    \/ AssertNdSquareness
    \/ ResolveDtype
    \/ Astype
    \/ GetHandle
    \/ AllocDevInfo
    \/ BufferSize
    \/ AllocWorkspace
    \/ Potrf
    \/ Classify
    \/ Tril
    \/ Return
    \/ TrilCall

Spec == Init /\ [][Next]_vars

\* ------------------------------------------------------------ properties
InCall == pc \notin {"idle", "tril_returned"}

\* No device-side effect has happened in this call.
NoDeviceWork ==
    /\ trace = <<>>
    /\ x = NoArr
    /\ heap.x = <<>>
    /\ ~handle
    /\ ~devInfo
    /\ ~workspace.allocated

InputInvalid ==
    \/ ~a.is_cupy
    \/ Len(a.shape) # 2
    \/ Len(a.shape) = 2 /\ a.shape[1] # a.shape[2]

StatusRead == \E i \in DOMAIN trace : trace[i].op = "read_status"

\* C1: whenever cholesky returns, every element strictly above the diagonal
\* of the returned array is exactly zero.
C1_UpperZero ==
    pc = "returned" =>
        \A c \in Coords(x.shape) : c[2] > c[1] => IsZero(heap[result][c])

\* C2: the status read back is classified exhaustively and exclusively:
\* positive raises the not-positive-definite error reporting that status as
\* the order, negative raises the parameter error, and zero is the only
\* status with which the call goes on to return a result.
C2_StatusClassified ==
    /\ StatusRead /\ status > 0 =>
          /\ pc = "raised"
          /\ err = Err("LinAlgError", "not_pd", status)
          /\ err.order >= 1
    /\ StatusRead /\ status < 0 =>
          /\ pc = "raised"
          /\ err = Err("LinAlgError", "param", 0)
    /\ StatusRead /\ status = 0 =>
          /\ pc \in {"L67", "L68", "returned"}
          /\ err = NoErr
    /\ result # "none" => StatusRead /\ status = 0
    /\ StatusRead /\ status # 0 => result = "none"

C2_Witness ==
    /\ pc = "raised"
    /\ err.what = "not_pd"
    /\ status = MaxStatus
    /\ err.order = MaxStatus

\* C3: the element type resolved for the working buffer is float32 or
\* float64 for every input element type, float32 and float64 passing
\* through unchanged.
C3_DtypeFloat ==
    dtype # "none" =>
        /\ dtype \in {"f", "d"}
        /\ a.dtype \in {"f", "d"} => dtype = a.dtype

\* C4: a call whose input violates a validation check never gets past the
\* validators: it does no device work, returns nothing, and ends raised.
C4_InvalidNoDeviceWork ==
    InCall /\ InputInvalid =>
        /\ pc \in {"L26", "L30", "L31", "L32", "raised"}
        /\ NoDeviceWork
        /\ result = "none"
        /\ pc = "raised" => err.type # "none"

C4_Witness ==
    /\ pc = "raised"
    /\ cusolver_enabled
    /\ a.is_cupy
    /\ Len(a.shape) = 2
    /\ a.shape[1] # a.shape[2]
    /\ err.what = "square"

\* C5: without the native solver library every call ends in the capability
\* error, before any validator has run and before any device work.
C5_CapabilityFirst ==
    InCall /\ ~cusolver_enabled =>
        /\ pc \in {"L26", "raised"}
        /\ pc = "raised" => err = Err("RuntimeError", "cusolver", 0)
        /\ NoDeviceWork
        /\ result = "none"

C5_Witness ==
    /\ pc = "raised"
    /\ ~cusolver_enabled
    /\ ~InputInvalid
    /\ a.shape = <<MaxN, MaxN>>
    /\ err.type = "RuntimeError"

\* C6: the caller's array holds the contents it had when cholesky was
\* called, at every point of the call and on every exit.
C6_InputNotMutated == InCall => heap.a = aOrig

C6_Witness ==
    /\ pc = "returned"
    /\ a.dtype \in {"f", "d"}
    /\ a.shape = <<MaxN, MaxN>>
    /\ heap.x # AstypeData(aOrig, a.dtype, dtype)
    /\ heap.a = aOrig

\* C8: after _tril(x, k) every element on or below the k-th diagonal holds
\* the value it had before the call and every element above it is zero.
C8_TrilContract ==
    pc \in {"tril_returned", "L68", "returned"} =>
        \A c \in Coords(x.shape) :
            /\ c[2] - c[1] <= k => heap[x.ref][c] = xPre[c]
            /\ c[2] - c[1] > k => IsZero(heap[x.ref][c])

Pipeline == <<"astype", "get_cusolver_handle", "empty_devInfo", "bufferSize",
              "empty_workspace", "potrf", "read_status", "tril">>

OpClass(op) == CASE op \in {"spotrf_bufferSize", "dpotrf_bufferSize"} -> "bufferSize"
                 [] op \in {"spotrf", "dpotrf"} -> "potrf"
                 [] OTHER -> op

Pos(cls) == CHOOSE i \in DOMAIN Pipeline : Pipeline[i] = cls

\* C9: the device-side steps of a call happen in the fixed order copy,
\* size query, scratch allocation of the queried size, factorization with
\* that size, status read, mask; the type is resolved before the copy; the
\* mask and the return happen only with status zero.
C9_PipelineOrder ==
    /\ Len(trace) <= Len(Pipeline)
    /\ \A i \in DOMAIN trace : OpClass(trace[i].op) = Pipeline[i]
    /\ trace # <<>> => dtype # "none" /\ trace[1].dt = dtype
    /\ Len(trace) >= Pos("empty_workspace") =>
          trace[Pos("empty_workspace")].size = trace[Pos("bufferSize")].size
    /\ Len(trace) >= Pos("potrf") =>
          trace[Pos("potrf")].size = trace[Pos("bufferSize")].size
    /\ Len(trace) >= Pos("tril") => status = 0
    /\ result # "none" => Len(trace) = Len(Pipeline) /\ status = 0
    /\ pc = "returned" <=> result # "none"
    /\ StatusRead /\ status # 0 => pc = "raised" /\ result = "none"

C9_Witness ==
    /\ pc = "returned"
    /\ Len(trace) = Len(Pipeline)
    /\ buffersize = MaxBuf
    /\ trace[Pos("potrf")].size = MaxBuf
    /\ workspace.size = MaxBuf

\* C10: the single-precision routines and a float32 scratch buffer are
\* used exactly when the working buffer is float32, the double-precision
\* ones and a float64 scratch buffer exactly when it is float64, and no
\* other element type reaches a native routine.
C10_RoutineMatchesDtype ==
    \A i \in DOMAIN trace :
        /\ trace[i].op \in {"spotrf_bufferSize", "spotrf"} => trace[i].dt = "f"
        /\ trace[i].op \in {"dpotrf_bufferSize", "dpotrf"} => trace[i].dt = "d"
        /\ trace[i].op = "empty_workspace" => trace[i].dt = x.dtype

====
